---- MODULE Spec2Model ----
(***************************************************************************)
(* A model of grumble's control-message handlers (message.go): the server  *)
(* keeps a map of connected clients and a map of channels, and handles one *)
(* decoded control message at a time on behalf of the client it came from. *)
(*                                                                         *)
(* Optional protobuf fields (Go pointers, nil when absent) are sequences:  *)
(* <<>> is nil and <<v>> is a pointer to v.                                *)
(***************************************************************************)
EXTENDS Integers, Sequences, FiniteSets, TLC

\* ------------------------------------------------------------- bounds --
\* Session ids a client can be given, and that a request can name.
MaxSessions == 3
\* Resync requests a client's counter is followed for.
MaxResync == 2
\* Longest destination list of a TextMessage.
MaxDest == 2
\* Highest value of a good, late or lost packet counter.
MaxCount == 2

\* ---------------------------------------------------------- constants --
MessagePing == 3
MessageUserState == 9
MessageTextMessage == 11
MessageCryptSetup == 15
AESBlockSize == 16

Sessions == 1..MaxSessions

\* ------------------------------------------------------------ helpers --
Min(a, b) == IF a <= b THEN a ELSE b

\* Go's builtin copy(dst, src): the number of elements copied ...
CopyCount(dst, src) == Min(Len(dst), Len(src))
\* ... and dst afterwards.
CopyInto(dst, src) ==
    [i \in 1..Len(dst) |-> IF i <= CopyCount(dst, src) THEN src[i] ELSE dst[i]]

\* make([]byte, n): n zero bytes.
MakeBytes(n) == [i \in 1..n |-> 0]
\* n bytes, all b.
Fill(n, b) == [i \in 1..n |-> b]
\* n bytes, counting up from b.
Ramp(n, b) == [i \in 1..n |-> b + i]

IsNil(p) == p = <<>>
Deref(p) == p[1]

\* ------------------------------------------------------------- state --
VARIABLES
    clients,    \* server.clients: session id -> Client, the connected ones
    channels,   \* server.channels: channel id -> Channel
    running,    \* the server process is alive (no goroutine has panicked)
    sent,       \* what the handler that ran last passed to sendProtoMessage,
                \* in order: [to, kind, msg]
    last,       \* the request handled last: [op, client, msg, exit]
    pre,        \* clients and channels as they were when it arrived
    resyncs,    \* per connected client, the CryptSetup requests with a
                \* block-wide nonce handled for it so far
    handlers    \* per session, where a handler running on its own for that
                \* client stands: [pc, cs, n]

vars == <<clients, channels, running, sent, last, pre, resyncs, handlers>>


\* ------------------------------------------- clients and channels --
\* The channel tree the server is constructed with: a root, a channel
\* under it and one under that.  An ACL entry names a subject (a group),
\* the permissions it grants and denies, and whether it applies to
\* sub-channels.
RootChannel == 0

NewChannel(id, parent, acl) ==
    [Id |-> id, parent |-> parent, members |-> {}, acl |-> acl, limit |-> <<>>]

InitialChannels ==
    (0 :> NewChannel(0, <<>>,
            << [subject |-> "all", grant |-> {"enter", "move"}, deny |-> {},
                applySubs |-> TRUE] >>)) @@
    (1 :> NewChannel(1, <<0>>,
            << [subject |-> "restricted", grant |-> {}, deny |-> {"enter", "move"},
                applySubs |-> TRUE] >>)) @@
    (2 :> NewChannel(2, <<1>>, <<>>))

\* Who a session is, beyond its id: set by authentication.
IsSuperUser(s) == s = 1
InGroup(s, g) == g = "all" \/ (g = "restricted" /\ s = 2)

\* A freshly connected client: in the root channel, with the IVs of its
\* key exchange and all counters at zero.
\* (UserId is the registered identity, nil while the user has none.)
NewClient(s) ==
    [Session |-> s,
     crypt |-> [EncryptIV |-> Fill(AESBlockSize, s),
                DecryptIV |-> Fill(AESBlockSize, 16 * s),
                Good |-> 0, Late |-> 0, Lost |-> 0, Resync |-> 0],
     Channel |-> RootChannel,
     Comment |-> "",
     SelfMute |-> FALSE,
     UserId |-> <<>>]

\* server.clients[id] and server.channels[id]: a pointer, nil when the map
\* has no such key.  A client pointer is identified by its session id.
LookupClient(cls, id) == IF id \in DOMAIN cls THEN <<id>> ELSE <<>>
LookupChannel(chs, id) == IF id \in DOMAIN chs THEN <<id>> ELSE <<>>

\* The server's maps, as handlers are given them and hand them back.
ServerState(cls, chs) == [clients |-> cls, channels |-> chs]

\* A session ends: the client leaves the client map and its channel's
\* member set, in one step.
RemoveClient(st, client) ==
    IF client \notin DOMAIN st.clients THEN st
    ELSE ServerState(
            [x \in DOMAIN st.clients \ {client} |-> st.clients[x]],
            [st.channels EXCEPT ![st.clients[client].Channel].members = @ \ {client}])

\* client.Panic: a connection-level fault; the connection is torn down.
Panic(st, client) == RemoveClient(st, client)

\* client.sendProtoMessage: one message queued for one client.
sendProtoMessage(to, kind, msg) == [to |-> to, kind |-> kind, msg |-> msg]

\* hasPermission: walk from the channel to the root; at each channel a
\* matching deny beats a matching grant, and above the starting channel
\* only entries that apply to sub-channels count.
RECURSIVE AclWalk(_, _, _, _, _)
AclWalk(chs, actor, ch, perm, above) ==
    LET acl == chs[ch].acl
        hits == {i \in 1..Len(acl) :
                    /\ InGroup(actor, acl[i].subject)
                    /\ (above => acl[i].applySubs)
                    /\ perm \in (acl[i].grant \cup acl[i].deny)}
    IN  IF \E i \in hits : perm \in acl[i].deny THEN FALSE
        ELSE IF hits # {} THEN TRUE
        ELSE IF IsNil(chs[ch].parent) THEN FALSE
        ELSE AclWalk(chs, actor, Deref(chs[ch].parent), perm, TRUE)

hasPermission(cls, chs, actor, ch, perm) ==
    /\ actor \in DOMAIN cls
    /\ ch \in DOMAIN chs
    /\ (IsSuperUser(actor) \/ AclWalk(chs, actor, ch, perm, FALSE))

\* The channel tree has no cycle: following parents from any channel
\* reaches the root within as many steps as there are channels.
RECURSIVE ReachesRoot(_, _, _)
ReachesRoot(chs, ch, fuel) ==
    IF IsNil(chs[ch].parent) THEN TRUE
    ELSE IF fuel = 0 \/ Deref(chs[ch].parent) \notin DOMAIN chs THEN FALSE
    ELSE ReachesRoot(chs, Deref(chs[ch].parent), fuel - 1)

Acyclic(chs) == \A ch \in DOMAIN chs : ReachesRoot(chs, ch, Cardinality(DOMAIN chs))

\* ----------------------------------------------------- CryptSetup --
\* What a handler hands back: the client map and channel map as it leaves
\* them, what it sent, whether the process survived it, the place it left
\* at, and the request record as it last stood.
Result(st, out, alive, exit, rec) ==
    [clients |-> st.clients, channels |-> st.channels, sent |-> out,
     running |-> alive, exit |-> exit, rec |-> rec]

\* len(cs.ClientNonce) == 0
NoClientNonce(cs) == Len(cs.ClientNonce) = 0

\* (a slip: only a nonce that is too long is turned away)
BadNonceLengthOnlyLonger(cs) == Len(cs.ClientNonce) > AESBlockSize

\* len(cs.ClientNonce) != cryptstate.AESBlockSize
BadNonceLength(cs) == Len(cs.ClientNonce) # AESBlockSize

\* (a slip: the decrypt IV is sent instead of the encrypt IV)
ResyncReplyDecryptIV(st, client, cs) ==
    [cs EXCEPT !.ClientNonce =
        CopyInto(MakeBytes(AESBlockSize), st.clients[client].crypt.DecryptIV)]

\* The reply to a request without a nonce: the request record, its nonce
\* replaced by a block-wide buffer with the client's encrypt IV copied in.
ResyncReply(st, client, cs) ==
    [cs EXCEPT !.ClientNonce =
        CopyInto(MakeBytes(AESBlockSize), st.clients[client].crypt.EncryptIV)]

\* (a slip: the nonce is copied over the encrypt IV)
ApplyClientNonceEncryptIV(st, client, cs) ==
    LET counted == [st.clients EXCEPT ![client].crypt.Resync = @ + 1]
    IN  ServerState(
            [counted EXCEPT ![client].crypt.EncryptIV = CopyInto(@, cs.ClientNonce)],
            st.channels)

\* (a slip: the resync is not counted)
ApplyClientNonceNoCount(st, client, cs) ==
    ServerState(
        [st.clients EXCEPT ![client].crypt.DecryptIV = CopyInto(@, cs.ClientNonce)],
        st.channels)

\* client.crypt.Resync += 1 is a read and a write; n is what was read.
\* (a slip: one crypt state shared by all clients)
StoreResyncShared(cls, client, n) ==
    [s \in DOMAIN cls |-> [cls[s] EXCEPT !.crypt.Resync = n + 1]]

StoreResync(cls, client, n) == [cls EXCEPT ![client].crypt.Resync = n + 1]

\* copy(client.crypt.DecryptIV[0:], cs.ClientNonce)
CopyNonce(cls, client, cs) ==
    [cls EXCEPT ![client].crypt.DecryptIV = CopyInto(@, cs.ClientNonce)]

\* client.crypt.Resync += 1, then the nonce copied over the decrypt IV.
ApplyClientNonce(st, client, cs) ==
    LET counted == [st.clients EXCEPT ![client].crypt.Resync = @ + 1]
    IN  ServerState(
            [counted EXCEPT ![client].crypt.DecryptIV = CopyInto(@, cs.ClientNonce)],
            st.channels)

handleCryptSetup(st, client, msg) ==
    LET cs == msg.rec IN
    IF ~msg.ok THEN
        Result(Panic(st, client), <<>>, TRUE, "decode", cs)
    ELSE IF NoClientNonce(cs) THEN
        IF CopyCount(MakeBytes(AESBlockSize), st.clients[client].crypt.EncryptIV)
              # AESBlockSize
        THEN Result(st, <<>>, TRUE, "copy", cs)
        ELSE Result(st,
                    << sendProtoMessage(client, MessageCryptSetup,
                                        ResyncReply(st, client, cs)) >>,
                    TRUE, "done", ResyncReply(st, client, cs))
    ELSE IF BadNonceLength(cs) THEN
        Result(st, <<>>, TRUE, "length", cs)
    ELSE
        Result(ApplyClientNonce(st, client, cs), <<>>, TRUE,
               IF CopyCount(st.clients[client].crypt.DecryptIV, cs.ClientNonce)
                     # AESBlockSize
               THEN "copy" ELSE "done",
               cs)

\* ----------------------------------------------------------- Ping --
\* uint32(n) of a counter: the counters here stay far below 2^31, the
\* largest number TLC holds, where the conversion keeps the value.
Uint32(n) == IF n >= 0 THEN n ELSE n + 2147483647 + 2147483647 + 2

\* (a slip: the late and lost counters change places)
PingReplySwapsLateLost(st, client, ping) ==
    [Timestamp |-> ping.Timestamp,
     Good   |-> << Uint32(st.clients[client].crypt.Good) >>,
     Late   |-> << Uint32(st.clients[client].crypt.Lost) >>,
     Lost   |-> << Uint32(st.clients[client].crypt.Late) >>,
     Resync |-> << Uint32(st.clients[client].crypt.Resync) >>]

PingReply(st, client, ping) ==
    [Timestamp |-> ping.Timestamp,
     Good   |-> << Uint32(st.clients[client].crypt.Good) >>,
     Late   |-> << Uint32(st.clients[client].crypt.Late) >>,
     Lost   |-> << Uint32(st.clients[client].crypt.Lost) >>,
     Resync |-> << Uint32(st.clients[client].crypt.Resync) >>]

handlePingMessage(st, client, msg) ==
    LET ping == msg.rec IN
    IF ~msg.ok THEN
        Result(Panic(st, client), <<>>, TRUE, "decode", ping)
    ELSE
        Result(st,
               << sendProtoMessage(client, MessagePing, PingReply(st, client, ping)) >>,
               TRUE, "done", ping)

\* ---------------------------------------------------- TextMessage --
\* The first loop: every destination looked up; log.Panic on a miss.
AllDestinationsKnown(st, txtmsg) ==
    \A i \in 1..Len(txtmsg.Session) :
        ~IsNil(LookupClient(st.clients, txtmsg.Session[i]))

\* (a slip: the actor the request claims is relayed)
RelayedTextClaimedActor(client, txtmsg) ==
    [Actor |-> txtmsg.Actor, Message |-> txtmsg.Message]

\* The message relayed to each destination: the sender's session id as
\* actor, and the body of the request.
RelayedText(client, txtmsg) ==
    [Actor |-> <<client>>, Message |-> txtmsg.Message]

\* The second loop: one send per looked-up user, in the order of the list.
RelayAll(st, client, txtmsg) ==
    [i \in 1..Len(txtmsg.Session) |->
        sendProtoMessage(Deref(LookupClient(st.clients, txtmsg.Session[i])),
                         MessageTextMessage, RelayedText(client, txtmsg))]

\* (a slip: one loop that sends to each destination as it finds it)
SentBeforeMissPrefix(st, client, txtmsg) ==
    LET miss == CHOOSE i \in 1..Len(txtmsg.Session) :
                    /\ IsNil(LookupClient(st.clients, txtmsg.Session[i]))
                    /\ \A j \in 1..(i - 1) :
                          ~IsNil(LookupClient(st.clients, txtmsg.Session[j]))
    IN  [i \in 1..(miss - 1) |->
            sendProtoMessage(txtmsg.Session[i], MessageTextMessage,
                             [Actor |-> <<client>>, Message |-> txtmsg.Message])]

\* What the first loop has sent when it meets a destination it cannot
\* find: it only collects the users, so nothing.
SentBeforeMiss(st, client, txtmsg) == <<>>

handleTextMessage(st, client, msg) ==
    LET txtmsg == msg.rec IN
    IF ~msg.ok THEN
        Result(Panic(st, client), <<>>, TRUE, "decode", txtmsg)
    ELSE IF ~AllDestinationsKnown(st, txtmsg) THEN
        Result(st, SentBeforeMiss(st, client, txtmsg), FALSE, "log.Panic", txtmsg)
    ELSE
        Result(st, RelayAll(st, client, txtmsg), TRUE, "done", txtmsg)

\* ------------------------------------------------------ UserStats --
\* A failed decode is reported and the handler goes on to its log line.
handleUserStatsMessage(st, client, msg) ==
    Result(IF ~msg.ok THEN Panic(st, client) ELSE st, <<>>, TRUE,
           "done", msg.rec)

\* ------------------------------------------------------ UserState --
\* The blocks of the handler that act on one present field each.  Each is
\* given the client and channel maps and hands back what it leaves of them.

\* (a slip: the move is carried out with no permission asked)
ChannelIdBlockMovesUnchecked(st, actor, user, userstate) ==
    IF IsNil(LookupChannel(st.channels, Deref(userstate.ChannelId))) THEN st
    ELSE ServerState(
            [st.clients EXCEPT ![user].Channel = Deref(userstate.ChannelId)],
            [ch \in DOMAIN st.channels |->
                [st.channels[ch] EXCEPT !.members =
                    IF ch = Deref(userstate.ChannelId) THEN @ \cup {user}
                    ELSE @ \ {user}]])

\* (a slip: the user is put in the destination's member set and nothing
\* else is updated)
ChannelIdBlockOnlyInserts(st, actor, user, userstate) ==
    IF IsNil(LookupChannel(st.channels, Deref(userstate.ChannelId))) THEN st
    ELSE ServerState(st.clients,
            [st.channels EXCEPT ![Deref(userstate.ChannelId)].members = @ \cup {user}])

\* "Has a channel ID": the destination channel is looked up and logged.
ChannelIdBlock(st, actor, user, userstate) == st

\* Mute, Deaf, Suppress, PrioritySpeaker.
MuteDeafBlock(st, actor, user, userstate) == st

\* (a slip: the comment is set here, ahead of the self-targetting check)
CommentBlockSetsComment(st, actor, user, userstate) ==
    ServerState([st.clients EXCEPT ![user].Comment = Deref(userstate.Comment)],
                st.channels)

\* "Comment set/clear": the comment is read and logged.
CommentBlock(st, actor, user, userstate) == st

\* "Texture change".
TextureBlock(st, actor, user, userstate) == st

\* (a slip: the identity the request carries is assigned, whatever its sign)
UserIdBlockRegisters(st, actor, user, userstate) ==
    ServerState([st.clients EXCEPT ![user].UserId = userstate.UserId], st.channels)

\* "Registration".
UserIdBlock(st, actor, user, userstate) == st

\* The fields only a user itself may set.
SelfTargetting(userstate) ==
    \/ ~IsNil(userstate.SelfDeaf)
    \/ ~IsNil(userstate.SelfMute)
    \/ ~IsNil(userstate.Texture)
    \/ ~IsNil(userstate.PluginContext)
    \/ ~IsNil(userstate.PluginIdentity)
    \/ ~IsNil(userstate.Recording)

\* actor != user && (...): the request is discarded.
DiscardSelfTargetting(actor, user, userstate) ==
    actor # user /\ SelfTargetting(userstate)

\* (a slip: an actor the request carries is kept)
NormaliseKeepsActor(actor, user, userstate) ==
    [userstate EXCEPT !.Session = << Deref(user) >>,
                      !.Actor   = IF IsNil(@) THEN << Deref(actor) >> ELSE @]

\* userstate.Session and userstate.Actor overwritten with the session
\* ids of the clients found.
Normalise(actor, user, userstate) ==
    [userstate EXCEPT !.Session = << Deref(user) >>,
                      !.Actor   = << Deref(actor) >>]

\* All the field blocks, in the order of the handler.
FieldBlocks(st, actor, user, us) ==
    LET a == IF ~IsNil(us.ChannelId) THEN ChannelIdBlock(st, actor, user, us) ELSE st
        b == IF ~IsNil(us.Mute) \/ ~IsNil(us.Deaf) \/ ~IsNil(us.Suppress)
                  \/ ~IsNil(us.PrioritySpeaker)
             THEN MuteDeafBlock(a, actor, user, us) ELSE a
        c == IF ~IsNil(us.Comment) THEN CommentBlock(b, actor, user, us) ELSE b
        d == IF ~IsNil(us.Texture) THEN TextureBlock(c, actor, user, us) ELSE c
    IN  IF ~IsNil(us.UserId) THEN UserIdBlock(d, actor, user, us) ELSE d

\* (a slip: no nil check, and *userstate.Session is dereferenced)
WithoutSessionDereferences(st, userstate) ==
    Result(st, <<>>, FALSE, "nil session", userstate)

\* userstate.Session == nil: "UserState without session.", and return.
WithoutSession(st, userstate) ==
    Result(st, <<>>, TRUE, "no session", userstate)

handleUserStateMessage(st, client, msg) ==
    LET userstate == msg.rec
        \* a failed decode is reported, and the handler goes on
        st0 == IF ~msg.ok THEN Panic(st, client) ELSE st
    IN
    IF IsNil(userstate.Session) THEN
        WithoutSession(st0, userstate)
    ELSE
        LET actor == LookupClient(st0.clients, client)
            user  == LookupClient(st0.clients, Deref(userstate.Session))
        IN
        IF IsNil(user) THEN      \* user.Session: nil pointer dereference
            Result(st0, <<>>, FALSE, "nil user", userstate)
        ELSE IF IsNil(actor) THEN    \* actor.Session
            Result(st0, <<>>, FALSE, "nil actor", userstate)
        ELSE
            LET us == Normalise(actor, user, userstate)
            IN  Result(FieldBlocks(st0, Deref(actor), Deref(user), us), <<>>, TRUE,
                       IF DiscardSelfTargetting(actor, user, us)
                       THEN "discard" ELSE "done",
                       us)

\* ------------------------------------------------------- requests --
Message(ok, rec) == [ok |-> ok, rec |-> rec]

\* CryptSetup: no nonce, a nonce one byte short, a block-wide nonce, a
\* nonce one byte long.
ClientNonces ==
    { <<>>, Ramp(AESBlockSize - 1, 160), Ramp(AESBlockSize, 160),
      Ramp(AESBlockSize + 1, 160) }

CryptSetupRecord(nonce) == [Key |-> <<>>, ClientNonce |-> nonce, ServerNonce |-> <<>>]

CryptSetupMessages ==
    { Message(TRUE, CryptSetupRecord(n)) : n \in ClientNonces }
        \cup { Message(FALSE, CryptSetupRecord(<<>>)) }

PingMessages ==
    { Message(TRUE, [Timestamp |-> t]) : t \in { <<>>, <<7>> } }
        \cup { Message(FALSE, [Timestamp |-> <<>>]) }

RECURSIVE SeqsUpTo(_, _)
SeqsUpTo(S, n) ==
    IF n = 0 THEN { <<>> }
    ELSE SeqsUpTo(S, n - 1)
            \cup { Append(q, x) : q \in { r \in SeqsUpTo(S, n - 1) : Len(r) = n - 1 }, x \in S }

TextMessages ==
    { Message(TRUE, [Actor |-> a, Session |-> d, Message |-> <<"hello">>]) :
        a \in { <<>>, <<1>> }, d \in SeqsUpTo(Sessions, MaxDest) }
        \cup { Message(FALSE, [Actor |-> <<>>, Session |-> <<>>, Message |-> <<>>]) }

UserStatsMessages == { Message(ok, [Session |-> <<>>]) : ok \in BOOLEAN }

NoUserState ==
    [Session |-> <<>>, Actor |-> <<>>, ChannelId |-> <<>>, Mute |-> <<>>,
     Deaf |-> <<>>, Suppress |-> <<>>, PrioritySpeaker |-> <<>>,
     SelfMute |-> <<>>, SelfDeaf |-> <<>>, Comment |-> <<>>, Texture |-> <<>>,
     UserId |-> <<>>, PluginContext |-> <<>>, PluginIdentity |-> <<>>,
     Recording |-> <<>>]

\* Requests with at most one field besides session and comment: a channel
\* (existing or not), one of the self-targetting fields, a server mute, a
\* registration, a claimed actor.
OneField ==
    { NoUserState }
        \cup { [NoUserState EXCEPT !.ChannelId = <<c>>] : c \in 0..3 }
        \cup { [NoUserState EXCEPT !.SelfMute = <<TRUE>>],
               [NoUserState EXCEPT !.SelfDeaf = <<TRUE>>],
               [NoUserState EXCEPT !.Texture = <<"tex">>],
               [NoUserState EXCEPT !.PluginContext = <<"ctx">>],
               [NoUserState EXCEPT !.PluginIdentity = <<"id">>],
               [NoUserState EXCEPT !.Recording = <<TRUE>>],
               [NoUserState EXCEPT !.Mute = <<TRUE>>],
               [NoUserState EXCEPT !.UserId = <<-1>>],
               [NoUserState EXCEPT !.UserId = <<0>>] }
        \cup { [NoUserState EXCEPT !.Actor = <<s>>] : s \in Sessions }

SessionFields == { <<>> } \cup { <<s>> : s \in Sessions }

UserStateRecords ==
    { [r EXCEPT !.Session = s, !.Comment = c] :
        r \in OneField, s \in SessionFields, c \in { <<>>, <<"hi">> } }

\* What a failed decode leaves in the record is whatever was decoded before
\* the failure: here, nothing or the session field.
UserStateMessages ==
    { Message(TRUE, r) : r \in UserStateRecords }
        \cup { Message(FALSE, [NoUserState EXCEPT !.Session = s]) : s \in SessionFields }

\* ---------------------------------------------------- specification --
\* The record of the server loop's last step, while there is none.
NoCall ==
    [op |-> "none", client |-> 0, msg |-> Message(TRUE, <<>>), exit |-> "done",
     rec |-> <<>>]

\* No handler is under way for any client.
IdleHandler == [pc |-> "idle", cs |-> <<>>, n |-> 0]
AllIdle == [s \in Sessions |-> IdleHandler]

Init ==
    /\ clients = <<>>
    /\ channels = InitialChannels
    /\ running = TRUE
    /\ sent = <<>>
    /\ last = NoCall
    /\ pre = ServerState(<<>>, InitialChannels)
    /\ resyncs = <<>>
    /\ handlers = AllIdle

\* The server loop is waiting for its next event.
Waiting == running /\ last = NoCall

\* The server takes messages from connected clients.
CanHandle(c) == Waiting /\ c \in DOMAIN clients

\* One step of the server loop, recorded.
Handled(op, c, msg, res) ==
    /\ clients' = res.clients
    /\ channels' = res.channels
    /\ sent' = res.sent
    /\ running' = res.running
    /\ last' = [op |-> op, client |-> c, msg |-> msg, exit |-> res.exit,
                rec |-> res.rec]
    /\ pre' = ServerState(clients, channels)
    /\ resyncs' =
          [s \in DOMAIN res.clients |->
              IF s \notin DOMAIN clients THEN 0
              ELSE IF op = "CryptSetup" /\ s = c /\ msg.ok
                        /\ Len(msg.rec.ClientNonce) = AESBlockSize
                   THEN resyncs[s] + 1
                   ELSE resyncs[s]]
    /\ UNCHANGED handlers

\* A client connects: it gets a free session id and sits in the root channel.
Connect(s) ==
    /\ Waiting
    /\ s \notin DOMAIN clients
    /\ Handled("Connect", s, Message(TRUE, <<>>),
               Result(ServerState(
                        clients @@ (s :> NewClient(s)),
                        [channels EXCEPT ![RootChannel].members = @ \cup {s}]),
                      <<>>, TRUE, "done", <<>>))

\* A client's connection ends.
Disconnect(s) ==
    /\ Waiting
    /\ s \in DOMAIN clients
    /\ Handled("Disconnect", s, Message(TRUE, <<>>),
               Result(RemoveClient(ServerState(clients, channels), s),
                      <<>>, TRUE, "done", <<>>))

\* A CryptSetup message of client c is handled.
CryptSetup(c) ==
    /\ CanHandle(c)
    /\ \E msg \in CryptSetupMessages :
          /\ (msg.ok /\ ~NoClientNonce(msg.rec) /\ ~BadNonceLength(msg.rec))
                => clients[c].crypt.Resync < MaxResync
          /\ Handled("CryptSetup", c, msg,
                     handleCryptSetup(ServerState(clients, channels), c, msg))

Ping(c) ==
    /\ CanHandle(c)
    /\ \E msg \in PingMessages :
          Handled("Ping", c, msg,
                  handlePingMessage(ServerState(clients, channels), c, msg))

UserState(c) ==
    /\ CanHandle(c)
    /\ \E msg \in UserStateMessages :
          Handled("UserState", c, msg,
                  handleUserStateMessage(ServerState(clients, channels), c, msg))

TextMessage(c) ==
    /\ CanHandle(c)
    /\ \E msg \in TextMessages :
          Handled("TextMessage", c, msg,
                  handleTextMessage(ServerState(clients, channels), c, msg))

UserStats(c) ==
    /\ CanHandle(c)
    /\ \E msg \in UserStatsMessages :
          Handled("UserStats", c, msg,
                  handleUserStatsMessage(ServerState(clients, channels), c, msg))

\* The handler has returned and the server loop waits for its next event:
\* the record of the call is dropped.
Return ==
    /\ running
    /\ last # NoCall
    /\ sent' = <<>>
    /\ last' = NoCall
    /\ pre' = ServerState(clients, channels)
    /\ UNCHANGED <<clients, channels, running, resyncs, handlers>>

Next ==
    \/ \E s \in Sessions : Connect(s)
    \/ \E s \in Sessions : Disconnect(s)
    \/ \E c \in Sessions : CryptSetup(c)
    \/ \E c \in Sessions : Ping(c)
    \/ \E c \in Sessions : UserState(c)
    \/ \E c \in Sessions : TextMessage(c)
    \/ \E c \in Sessions : UserStats(c)
    \/ Return

Spec == Init /\ [][Next]_vars

\* ============================================================ claims ==
\* The request handled last was a decoded request of the given kind.
Decoded(op) == last.op = op /\ last.msg.ok

\* The maps are as they were when the request arrived.
NothingChanged == clients = pre.clients /\ channels = pre.channels

\* The nonce of the CryptSetup request handled last.
LastNonce == last.msg.rec.ClientNonce

\* C1: with a decrypt IV one block wide, a CryptSetup request whose nonce
\* is exactly one block wide leaves the client's decrypt IV equal to the
\* nonce and its resync counter one higher than before.
C1_ValidNonceResyncs ==
    ( /\ Decoded("CryptSetup")
      /\ Len(LastNonce) = AESBlockSize
      /\ Len(pre.clients[last.client].crypt.DecryptIV) = AESBlockSize )
    => /\ last.client \in DOMAIN clients
       /\ clients[last.client].crypt.DecryptIV = LastNonce
       /\ clients[last.client].crypt.Resync
            = pre.clients[last.client].crypt.Resync + 1

C1_Witness ==
    /\ Decoded("CryptSetup")
    /\ Len(LastNonce) = AESBlockSize
    /\ pre.clients[last.client].crypt.DecryptIV # LastNonce
    /\ clients[last.client].crypt.DecryptIV = LastNonce
    /\ clients[last.client].crypt.Resync = 1

\* C2: a CryptSetup request whose nonce is non-empty and not one block wide
\* changes nothing of the client's crypt state (nor of anything else),
\* sends nothing and does not disconnect the client.
C2_BadNonceIgnored ==
    ( /\ Decoded("CryptSetup")
      /\ Len(LastNonce) # 0
      /\ Len(LastNonce) # AESBlockSize )
    => /\ NothingChanged
       /\ sent = <<>>
       /\ running
       /\ last.client \in DOMAIN clients

C2_Witness ==
    /\ Decoded("CryptSetup")
    /\ Len(LastNonce) = AESBlockSize - 1
    /\ pre.clients[last.client].crypt.Resync = 1
    /\ clients[last.client].crypt = pre.clients[last.client].crypt

\* C3: a CryptSetup request without a nonce sends exactly one CryptSetup
\* reply, to the requesting client, whose nonce is the server's encrypt IV
\* for that client, and leaves the client's IVs and resync counter as they
\* were.
C3_NoNonceRepliesEncryptIV ==
    ( Decoded("CryptSetup") /\ Len(LastNonce) = 0 )
    => /\ Len(sent) = 1
       /\ sent[1].to = last.client
       /\ sent[1].kind = MessageCryptSetup
       /\ sent[1].msg.ClientNonce = pre.clients[last.client].crypt.EncryptIV
       /\ NothingChanged

C3_Witness ==
    /\ Decoded("CryptSetup")
    /\ Len(LastNonce) = 0
    /\ Len(sent) = 1
    /\ sent[1].msg.ClientNonce = clients[last.client].crypt.EncryptIV
    /\ clients[last.client].crypt.DecryptIV # clients[last.client].crypt.EncryptIV
    /\ clients[last.client].crypt.Resync = 1

\* The destination list of the TextMessage handled last.
LastDestinations == last.msg.rec.Session

\* C4: a TextMessage from session s whose destinations are all connected
\* and do not include s produces exactly one TextMessage per entry of the
\* list, to that entry's session, with actor s and the body of the request;
\* nothing goes to any other session, nor to s.
C4_TextFansOut ==
    ( /\ Decoded("TextMessage")
      /\ \A i \in 1..Len(LastDestinations) :
            /\ LastDestinations[i] \in DOMAIN pre.clients
            /\ LastDestinations[i] # last.client )
    => /\ Len(sent) = Len(LastDestinations)
       /\ \A i \in 1..Len(sent) :
            /\ sent[i].to = LastDestinations[i]
            /\ sent[i].to # last.client
            /\ sent[i].kind = MessageTextMessage
            /\ sent[i].msg.Actor = << last.client >>
            /\ sent[i].msg.Message = last.msg.rec.Message
       /\ NothingChanged

C4_Witness ==
    /\ Decoded("TextMessage")
    /\ Len(LastDestinations) = 2
    /\ LastDestinations[1] # LastDestinations[2]
    /\ \A i \in 1..2 : LastDestinations[i] # last.client
    /\ ~IsNil(last.msg.rec.Actor)
    /\ last.msg.rec.Actor # << last.client >>
    /\ Len(sent) = 2

\* The session the UserState request handled last names.
LastUser == Deref(last.msg.rec.Session)

\* C5: a UserState request whose actor is not the user it names and that
\* carries self-deaf, self-mute, texture, plugin-context, plugin-identity
\* or recording changes no attribute of any client and no channel
\* membership, whatever else it carries, and nothing is sent.
C5_SelfTargettingRejected ==
    ( /\ Decoded("UserState")
      /\ ~IsNil(last.msg.rec.Session)
      /\ LastUser # last.client
      /\ SelfTargetting(last.msg.rec) )
    => /\ NothingChanged
       /\ sent = <<>>

C5_Witness ==
    /\ Decoded("UserState")
    /\ ~IsNil(last.msg.rec.Session)
    /\ LastUser \in DOMAIN pre.clients
    /\ LastUser # last.client
    /\ ~IsNil(last.msg.rec.Recording)
    /\ ~IsNil(last.msg.rec.Comment)
    /\ Deref(last.msg.rec.Comment) # pre.clients[LastUser].Comment
    /\ last.exit = "discard"

\* C6: a UserState request naming a session that is not in the client map
\* is dropped: the handler returns, the server stays up, nothing changes
\* and nothing is sent.
C6_UnknownUserDropped ==
    ( /\ Decoded("UserState")
      /\ ~IsNil(last.msg.rec.Session)
      /\ LastUser \notin DOMAIN pre.clients )
    => /\ running
       /\ NothingChanged
       /\ sent = <<>>

\* C7: a TextMessage naming a destination that is not in the client map
\* does not terminate the server and leaves every client's session alone.
C7_UnknownDestinationLocal ==
    ( /\ Decoded("TextMessage")
      /\ \E i \in 1..Len(LastDestinations) :
            LastDestinations[i] \notin DOMAIN pre.clients )
    => /\ running
       /\ clients = pre.clients

\* The request handled last was one of the five control messages.
IsControlMessage ==
    last.op \in {"CryptSetup", "Ping", "UserState", "TextMessage", "UserStats"}

\* The handler left right after reporting the failed decode.  (The
\* UserStats handler has nothing after its decode but a log line.)
StoppedAtDecode == last.exit = "decode" \/ last.op = "UserStats"

\* C8: in every control-message handler a payload that fails to decode is
\* reported to its client as a connection fault, and then the handler does
\* nothing else: it reads nothing of the record, sends nothing, and leaves
\* the other clients and the server as they were.
C8_DecodeFailureStops ==
    ( IsControlMessage /\ ~last.msg.ok )
    => /\ StoppedAtDecode
       /\ running
       /\ sent = <<>>
       /\ last.client \notin DOMAIN clients
       /\ \A s \in DOMAIN pre.clients \ {last.client} :
            s \in DOMAIN clients /\ clients[s] = pre.clients[s]

\* The checks of a channel move, on the maps as the request found them:
\* the destination exists; the actor is the user, or may move users out of
\* the user's channel; actor and user may enter the destination; the
\* destination is not full.  A superuser passes the permission checks.
ChannelFull(chs, ch) ==
    ~IsNil(chs[ch].limit) /\ Cardinality(chs[ch].members) >= Deref(chs[ch].limit)

MoveChecksPass(st, actor, user, dst) ==
    /\ dst \in DOMAIN st.channels
    /\ user \in DOMAIN st.clients
    /\ \/ IsSuperUser(actor)
       \/ /\ actor = user
             \/ hasPermission(st.clients, st.channels, actor,
                              st.clients[user].Channel, "move")
          /\ hasPermission(st.clients, st.channels, actor, dst, "enter")
          /\ hasPermission(st.clients, st.channels, user, dst, "enter")
    /\ ~ChannelFull(st.channels, dst)

\* The channel the UserState request handled last names.
LastChannelId == Deref(last.msg.rec.ChannelId)

\* C9: when a UserState request with a destination channel passes all the
\* checks of a move, the user is afterwards out of the old channel's member
\* set, in the destination's, and its current channel is the destination.
C9_MoveApplied ==
    ( /\ Decoded("UserState")
      /\ ~IsNil(last.msg.rec.Session)
      /\ ~IsNil(last.msg.rec.ChannelId)
      /\ MoveChecksPass(pre, last.client, LastUser, LastChannelId)
      /\ LastChannelId # pre.clients[LastUser].Channel )
    => /\ LastUser \notin channels[pre.clients[LastUser].Channel].members
       /\ LastUser \in channels[LastChannelId].members
       /\ clients[LastUser].Channel = LastChannelId

\* C10: whatever UserState requests with channel ids were handled, every
\* client's current channel is a channel of the server whose member set
\* holds the client, no other channel's member set holds it, member sets
\* hold connected clients only, and the channel tree has no cycle.
C10_ChannelConsistency ==
    /\ \A s \in DOMAIN clients :
          /\ clients[s].Channel \in DOMAIN channels
          /\ \A ch \in DOMAIN channels :
                s \in channels[ch].members <=> ch = clients[s].Channel
    /\ \A ch \in DOMAIN channels : channels[ch].members \subseteq DOMAIN clients
    /\ Acyclic(channels)

C10_Witness ==
    /\ Decoded("UserState")
    /\ last.exit = "done"
    /\ ~IsNil(last.msg.rec.ChannelId)
    /\ LastChannelId \in DOMAIN channels
    /\ LastChannelId # clients[LastUser].Channel
    /\ LastUser # last.client
    /\ Cardinality(DOMAIN clients) = MaxSessions

\* C11: a UserState request carrying a user-id of 0 or more never gives
\* any user a registered identity, whoever the actor and the user are.
C11_NonNegativeUserIdRejected ==
    ( /\ Decoded("UserState")
      /\ ~IsNil(last.msg.rec.UserId)
      /\ Deref(last.msg.rec.UserId) >= 0 )
    => \A s \in DOMAIN clients \cap DOMAIN pre.clients :
          clients[s].UserId = pre.clients[s].UserId

C11_Witness ==
    /\ Decoded("UserState")
    /\ ~IsNil(last.msg.rec.UserId)
    /\ Deref(last.msg.rec.UserId) >= 0
    /\ ~IsNil(last.msg.rec.Session)
    /\ LastUser \in DOMAIN clients
    /\ LastUser # last.client
    /\ IsSuperUser(last.client)
    /\ last.exit = "done"
    /\ IsNil(clients[LastUser].UserId)

\* A request of a user on itself that carries a comment or a channel and
\* nothing else to check, passes the checks there are for these, and asks
\* for something the user does not have yet.
PassesAndChanges ==
    LET us == last.msg.rec IN
    /\ Decoded("UserState")
    /\ us.Session = << last.client >>
    /\ last.client \in DOMAIN pre.clients
    /\ IsNil(us.Mute) /\ IsNil(us.Deaf) /\ IsNil(us.Suppress)
    /\ IsNil(us.PrioritySpeaker) /\ IsNil(us.Texture) /\ IsNil(us.UserId)
    /\ ~IsNil(us.ChannelId) =>
          MoveChecksPass(pre, last.client, last.client, Deref(us.ChannelId))
    /\ \/ ~IsNil(us.Comment)
            /\ Deref(us.Comment) # pre.clients[last.client].Comment
       \/ ~IsNil(us.ChannelId)
            /\ Deref(us.ChannelId) # pre.clients[last.client].Channel

\* C12: after a UserState request that passes every check and changes an
\* attribute of the user, every connected session is sent a UserState
\* record with the actor's and the user's session ids and the changed
\* fields.
C12_ChangeBroadcast ==
    PassesAndChanges
    => \A s \in DOMAIN pre.clients :
          \E i \in 1..Len(sent) :
             /\ sent[i].to = s
             /\ sent[i].kind = MessageUserState
             /\ sent[i].msg.Actor = << last.client >>
             /\ sent[i].msg.Session = << last.client >>

\* The actor may not enter the channel although the root grants it to the
\* channels below: a deny closer to the channel overrides the grant.
DeniedDespiteInheritedGrant(st, actor, ch, perm) ==
    /\ ch \in DOMAIN st.channels
    /\ ch # RootChannel
    /\ ~hasPermission(st.clients, st.channels, actor, ch, perm)
    /\ AclWalk(st.channels, actor, RootChannel, perm, TRUE)

\* C13: a user's request to move itself to a channel it may not enter,
\* because a closer deny overrides an inherited grant, leaves the user's
\* current channel and every channel's member set as they were.
C13_DeniedSelfMoveChangesNothing ==
    ( /\ Decoded("UserState")
      /\ last.msg.rec.Session = << last.client >>
      /\ ~IsNil(last.msg.rec.ChannelId)
      /\ DeniedDespiteInheritedGrant(pre, last.client, LastChannelId, "enter") )
    => /\ last.client \in DOMAIN clients
       /\ clients[last.client].Channel = pre.clients[last.client].Channel
       /\ \A ch \in DOMAIN channels :
             channels[ch].members = pre.channels[ch].members

C13_Witness ==
    /\ Decoded("UserState")
    /\ last.msg.rec.Session = << last.client >>
    /\ ~IsNil(last.msg.rec.ChannelId)
    /\ DeniedDespiteInheritedGrant(pre, last.client, LastChannelId, "enter")
    /\ LastChannelId # clients[last.client].Channel
    /\ last.exit = "done"

\* The handler got past the lookup of actor and user.
PastTargetResolution ==
    last.op = "UserState" /\ last.exit \in {"discard", "done"}

\* C14: in the UserState record the handler works on once actor and user
\* are resolved, the actor is the session the request arrived on and the
\* session is the user's, whatever actor the client wrote in the request.
C14_ActorIsTheConnection ==
    PastTargetResolution
    => /\ last.rec.Actor = << last.client >>
       /\ last.rec.Session = << LastUser >>
       /\ LastUser \in DOMAIN clients

C14_Witness ==
    /\ PastTargetResolution
    /\ ~IsNil(last.msg.rec.Actor)
    /\ last.msg.rec.Actor # << last.client >>
    /\ last.msg.rec.Actor # last.msg.rec.Session
    /\ last.rec.Actor = << last.client >>

\* The clients that were connected before the last step and still are.
Stayed == DOMAIN clients \cap DOMAIN pre.clients

\* The step handled last is none that counts as a resync.
NotAResync ==
    \/ last.op \in {"Ping", "UserState", "TextMessage"}
    \/ Decoded("CryptSetup") /\ Len(LastNonce) # AESBlockSize

\* C15: a client's resync counter never decreases, it is always the number
\* of CryptSetup requests with a block-wide nonce handled for the client so
\* far, and CryptSetup requests without such a nonce, Ping, UserState and
\* TextMessage requests leave it alone.
C15_ResyncCounts ==
    /\ DOMAIN resyncs = DOMAIN clients
    /\ \A s \in DOMAIN clients : clients[s].crypt.Resync = resyncs[s]
    /\ \A s \in Stayed : clients[s].crypt.Resync >= pre.clients[s].crypt.Resync
    /\ NotAResync =>
          \A s \in Stayed : clients[s].crypt.Resync = pre.clients[s].crypt.Resync

C15_Witness ==
    /\ NotAResync
    /\ last.op = "UserState"
    /\ last.client \in DOMAIN clients
    /\ clients[last.client].crypt.Resync = 2
    /\ resyncs[last.client] = 2
    /\ \E s \in DOMAIN clients : clients[s].crypt.Resync = 1

\* C17: a UserState request without a session field is dropped at once:
\* nothing of the clients or channels changes and nothing is sent.
C17_NoSessionDropped ==
    ( Decoded("UserState") /\ IsNil(last.msg.rec.Session) )
    => /\ NothingChanged
       /\ sent = <<>>
       /\ running
       /\ last.exit = "no session"

C17_Witness ==
    /\ Decoded("UserState")
    /\ IsNil(last.msg.rec.Session)
    /\ ~IsNil(last.msg.rec.ChannelId)
    /\ ~IsNil(last.msg.rec.Comment)
    /\ last.exit = "no session"

\* C18: when a TextMessage lists a session that is not in the client map,
\* no destination is sent the message, the known ones ahead of it in the
\* list included.
C18_RelayAllOrNothing ==
    ( /\ Decoded("TextMessage")
      /\ \E i \in 1..Len(LastDestinations) :
            LastDestinations[i] \notin DOMAIN pre.clients )
    => sent = <<>>

C18_Witness ==
    /\ Decoded("TextMessage")
    /\ Len(LastDestinations) = 2
    /\ LastDestinations[1] \in DOMAIN pre.clients
    /\ LastDestinations[1] # last.client
    /\ LastDestinations[2] \notin DOMAIN pre.clients
    /\ sent = <<>>

\* ------------------------------------------- Ping, with voice traffic --
\* A connected client whose voice packets and resyncs have left its
\* counters at the given values.
ClientWithCounters(s, good, late, lost, resync) ==
    [NewClient(s) EXCEPT !.crypt.Good = good, !.crypt.Late = late,
                         !.crypt.Lost = lost, !.crypt.Resync = resync]

\* Some clients are connected, and one of them has seen voice traffic.
InitPing ==
    \E D \in SUBSET Sessions : \E c \in D :
    \E good, late, lost \in 0..MaxCount, resync \in 0..MaxResync :
        /\ clients = [s \in D |->
                        IF s = c
                        THEN ClientWithCounters(s, good, late, lost, resync)
                        ELSE NewClient(s)]
        /\ channels = [InitialChannels EXCEPT ![RootChannel].members = D]
        /\ running = TRUE
        /\ sent = <<>>
        /\ last = NoCall
        /\ pre = ServerState(clients, channels)
        /\ resyncs = [s \in D |-> clients[s].crypt.Resync]
        /\ handlers = AllIdle

NextPing ==
    \/ \E c \in Sessions : Ping(c)
    \/ Return

SpecPing == InitPing /\ [][NextPing]_vars

\* C16: a control-channel Ping is answered with exactly one Ping, to the
\* requesting client, that echoes the request's timestamp and carries the
\* client's good, late, lost and resync counters; no state changes and
\* nothing goes to any other client.
C16_PingEchoesCounters ==
    Decoded("Ping")
    => /\ Len(sent) = 1
       /\ sent[1].to = last.client
       /\ sent[1].kind = MessagePing
       /\ sent[1].msg.Timestamp = last.msg.rec.Timestamp
       /\ sent[1].msg.Good = << pre.clients[last.client].crypt.Good >>
       /\ sent[1].msg.Late = << pre.clients[last.client].crypt.Late >>
       /\ sent[1].msg.Lost = << pre.clients[last.client].crypt.Lost >>
       /\ sent[1].msg.Resync = << pre.clients[last.client].crypt.Resync >>
       /\ NothingChanged

C16_Witness ==
    /\ Decoded("Ping")
    /\ ~IsNil(last.msg.rec.Timestamp)
    /\ Cardinality(DOMAIN clients) > 1
    /\ LET crypt == clients[last.client].crypt IN
          /\ crypt.Good # crypt.Late
          /\ crypt.Late # crypt.Lost
          /\ crypt.Good # crypt.Lost
          /\ crypt.Resync # crypt.Good
    /\ Len(sent) = 1

\* -------------------------------- CryptSetup handlers, interleaved --
\* handleCryptSetup run for each client on its own, one statement at a
\* time, the statements of different clients' handlers in any order.  A
\* client's own requests are handled one after the other.
InitInterleave ==
    \E D \in SUBSET Sessions :
        /\ D # {}
        /\ clients = [s \in D |-> NewClient(s)]
        /\ channels = [InitialChannels EXCEPT ![RootChannel].members = D]
        /\ running = TRUE
        /\ sent = <<>>
        /\ last = NoCall
        /\ pre = ServerState(clients, channels)
        /\ resyncs = [s \in D |-> 0]
        /\ handlers = AllIdle

\* One statement of client c's handler, recorded.
Stepped(c, msg, exit, cls, chs, out, h, count) ==
    /\ clients' = cls
    /\ channels' = chs
    /\ sent' = out
    /\ handlers' = [handlers EXCEPT ![c] = h]
    /\ resyncs' = count
    /\ last' = [op |-> "CryptSetupStep", client |-> c, msg |-> msg, exit |-> exit,
                rec |-> msg.rec]
    /\ pre' = ServerState(clients, channels)
    /\ UNCHANGED running

\* The decode and the tests on the nonce; the reply when there is none.
BeginCryptSetup(c) ==
    /\ CanHandle(c)
    /\ handlers[c].pc = "idle"
    /\ \E msg \in CryptSetupMessages :
        LET st == ServerState(clients, channels) IN
        IF ~msg.ok \/ NoClientNonce(msg.rec) \/ BadNonceLength(msg.rec) THEN
            LET res == handleCryptSetup(st, c, msg) IN
            Stepped(c, msg, res.exit, res.clients, res.channels, res.sent,
                    IdleHandler,
                    [s \in DOMAIN res.clients |-> resyncs[s]])
        ELSE
            /\ clients[c].crypt.Resync < MaxResync
            /\ Stepped(c, msg, "length ok", clients, channels, <<>>,
                       [pc |-> "load", cs |-> msg.rec, n |-> 0], resyncs)

\* client.crypt.Resync += 1: the read ...
LoadResync(c) ==
    /\ CanHandle(c)
    /\ handlers[c].pc = "load"
    /\ Stepped(c, Message(TRUE, handlers[c].cs), "load", clients, channels, <<>>,
               [handlers[c] EXCEPT !.pc = "store", !.n = clients[c].crypt.Resync],
               resyncs)

\* ... and the write.
StoreResyncStep(c) ==
    /\ CanHandle(c)
    /\ handlers[c].pc = "store"
    /\ Stepped(c, Message(TRUE, handlers[c].cs), "store",
               StoreResync(clients, c, handlers[c].n), channels, <<>>,
               [handlers[c] EXCEPT !.pc = "copy"], resyncs)

\* The nonce copied over the decrypt IV; the handler returns.
CopyNonceStep(c) ==
    /\ CanHandle(c)
    /\ handlers[c].pc = "copy"
    /\ Stepped(c, Message(TRUE, handlers[c].cs), "done",
               CopyNonce(clients, c, handlers[c].cs), channels, <<>>,
               IdleHandler, [resyncs EXCEPT ![c] = @ + 1])

NextInterleave ==
    \/ \E c \in Sessions : BeginCryptSetup(c)
    \/ \E c \in Sessions : LoadResync(c)
    \/ \E c \in Sessions : StoreResyncStep(c)
    \/ \E c \in Sessions : CopyNonceStep(c)
    \/ Return

SpecInterleave == InitInterleave /\ [][NextInterleave]_vars

\* C19: however the handlers of different clients interleave, a step of
\* client A's CryptSetup handler leaves the IVs and counters of every
\* other client as they were, and whenever a client's handler has
\* returned its resync counter is the number of its own requests with a
\* block-wide nonce.
C19_CryptStateIsPerClient ==
    /\ last.op = "CryptSetupStep" =>
          \A s \in Stayed \ {last.client} : clients[s].crypt = pre.clients[s].crypt
    /\ \A s \in DOMAIN clients :
          handlers[s].pc = "idle" => clients[s].crypt.Resync = resyncs[s]

\* Client A's handler has stored its count while another client's handler
\* stands between its read and its write, and a third client has resynced.
C19_Witness ==
    /\ last.op = "CryptSetupStep"
    /\ last.exit = "store"
    /\ clients[last.client].crypt.Resync = 2
    /\ \E s \in DOMAIN clients \ {last.client} :
          /\ handlers[s].pc = "store"
          /\ clients[s].crypt.Resync = 0
    /\ \E s \in DOMAIN clients \ {last.client} :
          /\ handlers[s].pc = "idle"
          /\ clients[s].crypt.Resync = 1

====
